---- MODULE Spec2Model ----
(***************************************************************************)
(* Model of the chunkers of advanced_rag:                                  *)
(*   - TokenChunker.split_into_chunks     (src/chunker_py.py)              *)
(*   - MarkdownChunker.chunk_markdown     (src/markdown_chunker.py)        *)
(* Texts are sequences of one-character strings; token streams are         *)
(* represented by their length, a window by its half-open index range.     *)
(***************************************************************************)
EXTENDS Integers, Sequences, FiniteSets, TLC

VARIABLES
    tc_pc,              \* position in TokenChunker: "idle", "loop", "done"
    target_chunk_size,  \* self.target_chunk_size
    overlap,            \* self.overlap
    total_tokens,       \* len(tokens)
    start_idx,          \* loop cursor of split_into_chunks
    chunks,             \* windows appended so far, as index ranges
    preserve_code_blocks,  \* self.preserve_code_blocks
    preserve_tables,    \* self.preserve_tables
    md_pc,              \* position in chunk_markdown: "idle", "loop", "done"
    document,           \* the content handed to chunk_markdown
    masked_content,     \* content after _preserve_special_blocks
    py_hash,            \* hash() of the interpreter on the blocks it was given
    heading_chunks,     \* result of _split_at_heading
    next_chunk,         \* index of the next element of heading_chunks
    parent_ids,         \* dict: heading level -> chunk id
    md_chunks,          \* MarkdownChunk records appended so far
    \* calls in flight at the same time: the locals of each call
    frames,
    \* chunk_markdown_file of chunk_large_file.py
    lf_pc,              \* "idle", "loop", "done"
    lf_chunks,          \* chunks
    lf_requests,        \* calls of client.chat.completions.create so far
    \* chunk_markdown_file of chunk_large2.py
    l2_pc,              \* "idle", "loop", "done"
    file_content,       \* content, the text read from the file
    remaining_content,  \* remaining_content
    l2_chunks           \* chunks

tcVars == <<tc_pc, target_chunk_size, overlap, total_tokens, start_idx, chunks>>

mdVars == <<preserve_code_blocks, preserve_tables, md_pc, document,
            masked_content, py_hash, heading_chunks, next_chunk, parent_ids,
            md_chunks>>

llmVars == <<lf_pc, lf_chunks, lf_requests, l2_pc, file_content,
             remaining_content, l2_chunks>>

vars == <<tcVars, mdVars, frames, llmVars>>

----------------------------------------------------------------------------
(* Bounds of the model *)

\* largest target_chunk_size and overlap handed to the constructor
MaxSize == 4

\* longest token stream that is encoded
MaxTokens == 7

\* cut-off of the window loop when the cursor does not advance
MaxChunks == MaxTokens + 2

\* most lines of a document handed to chunk_markdown
MaxLines == 4

\* largest magnitude of a value of hash()
MaxHash == 2

\* most parts (blocks, headings) of a document made of whole parts
MaxParts == 2

\* most characters of a file handed to the prefix-consuming loop
MaxContent == 3

----------------------------------------------------------------------------
(* Texts *)

Min(a, b) == IF a < b THEN a ELSE b

NL == "\n"

RECURSIVE Repeat(_, _)
Repeat(c, n) == IF n = 0 THEN << >> ELSE <<c>> \o Repeat(c, n - 1)

\* text[:n]
Prefix(text, n) == SubSeq(text, 1, Min(n, Len(text)))

\* text[n:] (n counts the characters dropped)
Drop(text, n) == SubSeq(text, n + 1, Len(text))

Least(S) == CHOOSE x \in S : \A y \in S : x <= y

\* index of the first "\n" at or after position i, or Len(text) + 1
NextNL(text, i) ==
    LET at == {j \in i .. Len(text) : text[j] = NL}
    IN  IF at = {} THEN Len(text) + 1 ELSE Least(at)

\* content.split('\n'), from position i on
RECURSIVE SplitFrom(_, _)
SplitFrom(text, i) ==
    LET j == NextNL(text, i)
    IN  IF j > Len(text)
        THEN <<SubSeq(text, i, Len(text))>>
        ELSE <<SubSeq(text, i, j - 1)>> \o SplitFrom(text, j + 1)

SplitLines(text) == SplitFrom(text, 1)

\* '\n'.join(lines)
RECURSIVE JoinLines(_)
JoinLines(lines) ==
    IF Len(lines) = 0 THEN << >>
    ELSE IF Len(lines) = 1 THEN lines[1]
    ELSE lines[1] \o <<NL>> \o JoinLines(Tail(lines))

\* whitespace that can occur inside a line
IsSpace(c) == c \in {" ", "\t"}

\* number of leading '#' of a line
RECURSIVE CountHashes(_, _)
CountHashes(line, i) ==
    IF i <= Len(line) /\ line[i] = "#" THEN CountHashes(line, i + 1) ELSE i - 1

\* line.lstrip('#')
LStripHashes(line) == Drop(line, CountHashes(line, 1))

RECURSIVE LStrip(_)
LStrip(t) == IF Len(t) > 0 /\ IsSpace(t[1]) THEN LStrip(Tail(t)) ELSE t

RECURSIVE RStrip(_)
RStrip(t) ==
    IF Len(t) > 0 /\ IsSpace(t[Len(t)]) THEN RStrip(SubSeq(t, 1, Len(t) - 1)) ELSE t

\* t.strip()
Strip(t) == RStrip(LStrip(t))


----------------------------------------------------------------------------
(* Special blocks: code_block_pattern, table_pattern and their placeholders *)

\* \w over the characters that occur in the documents
IsWord(c) == c \in {"a", "b", "_"}

Digit(d) == <<"0", "1", "2", "3", "4", "5", "6", "7", "8", "9">>[d + 1]

\* str(n) of an integer
RECURSIVE Decimal(_)
Decimal(n) ==
    IF n < 0 THEN <<"-">> \o Decimal(0 - n)
    ELSE IF n < 10 THEN <<Digit(n)>>
    ELSE Decimal(n \div 10) \o <<Digit(n % 10)>>

\* f"CODE_BLOCK_{hash(m.group(0))}"
CodePlaceholder(h) ==
    <<"C", "O", "D", "E", "_", "B", "L", "O", "C", "K", "_">> \o Decimal(h)

\* f"TABLE_{hash(m.group(0))}"
TablePlaceholder(h) == <<"T", "A", "B", "L", "E", "_">> \o Decimal(h)

\* the backtick, which a TLA+ string cannot hold, is written as an apostrophe
BT == "'"

\* three backticks at position i
IsFence(text, i) ==
    /\ i >= 1 /\ i + 2 <= Len(text)
    /\ text[i] = BT /\ text[i + 1] = BT /\ text[i + 2] = BT

\* first position at or after i that holds no word character
RECURSIVE WordRunEnd(_, _)
WordRunEnd(text, i) ==
    IF i <= Len(text) /\ IsWord(text[i]) THEN WordRunEnd(text, i + 1) ELSE i

\* first position j >= i with newline-fence at j, 0 when there is none: (.*?)\n'''
FindClose(text, j) ==
    LET at == {k \in j .. Len(text) : text[k] = NL /\ IsFence(text, k + 1)}
    IN  IF at = {} THEN 0 ELSE Least(at)

\* code_block_pattern matched at position i: the last position of the match,
\* 0 when it does not match there.  '''(\w*)\n(.*?)\n''' with DOTALL
MatchCodeAt(text, i) ==
    IF ~IsFence(text, i) THEN 0
    ELSE LET w == WordRunEnd(text, i + 3)
         IN  IF w <= Len(text) /\ text[w] = NL
             THEN LET j == FindClose(text, w + 1)
                  IN  IF j = 0 THEN 0 ELSE j + 3
             ELSE 0

\* first position at or after i that holds no "\n"
RECURSIVE SkipNLs(_, _)
SkipNLs(text, i) ==
    IF i <= Len(text) /\ text[i] = NL THEN SkipNLs(text, i + 1) ELSE i

\* \|.*\|[\r\n]+ at position p: the position after the newlines, 0 when no match
PipeRowAt(text, p) ==
    IF p > Len(text) \/ text[p] # "|" THEN 0
    ELSE LET l == NextNL(text, p)
         IN  IF l <= Len(text) /\ l - 1 > p /\ text[l - 1] = "|"
             THEN SkipNLs(text, l)
             ELSE 0

RECURSIVE DashRunEnd(_, _)
DashRunEnd(text, i) ==
    IF i <= Len(text) /\ text[i] \in {"-", ":"} THEN DashRunEnd(text, i + 1) ELSE i

\* \|[-:]+\|[\r\n]+ at position p: the position after the newlines, 0 when no match
SeparatorRowAt(text, p) ==
    IF p > Len(text) \/ text[p] # "|" THEN 0
    ELSE LET r == DashRunEnd(text, p + 1)
         IN  IF /\ r > p + 1
                /\ r + 1 <= Len(text)
                /\ text[r] = "|"
                /\ text[r + 1] = NL
             THEN SkipNLs(text, r + 1)
             ELSE 0

\* (\|.*\|[\r\n]+)+ from position p, greedy: the position after the last row
\* matched, p itself when no row matches
RECURSIVE PipeRows(_, _)
PipeRows(text, p) ==
    LET q == PipeRowAt(text, p)
    IN  IF q = 0 THEN p ELSE PipeRows(text, q)

\* table_pattern matched at position i: the last position of the match, 0 when
\* it does not match there
MatchTableAt(text, i) ==
    LET h == PipeRowAt(text, i)
    IN  IF h = 0 THEN 0
        ELSE LET s == SeparatorRowAt(text, h)
             IN  IF s = 0 THEN 0
                 ELSE LET e == PipeRows(text, s)
                      IN  IF e = s THEN 0 ELSE e - 1

\* the texts pattern.sub visits: non-overlapping matches from the left
RECURSIVE CodeMatches(_, _)
CodeMatches(text, i) ==
    LET at == {j \in i .. Len(text) : MatchCodeAt(text, j) > 0}
    IN  IF at = {} THEN {}
        ELSE LET j == Least(at)
                 e == MatchCodeAt(text, j)
             IN  {SubSeq(text, j, e)} \cup CodeMatches(text, e + 1)

RECURSIVE TableMatches(_, _)
TableMatches(text, i) ==
    LET at == {j \in i .. Len(text) : MatchTableAt(text, j) > 0}
    IN  IF at = {} THEN {}
        ELSE LET j == Least(at)
                 e == MatchTableAt(text, j)
             IN  {SubSeq(text, j, e)} \cup TableMatches(text, e + 1)

\* code_block_pattern.sub(lambda m: f"CODE_BLOCK_{hash(m.group(0))}", content),
\* hash being the function H of the running interpreter
RECURSIVE SubCode(_, _, _)
SubCode(text, i, H) ==
    LET at == {j \in i .. Len(text) : MatchCodeAt(text, j) > 0}
    IN  IF at = {} THEN SubSeq(text, i, Len(text))
        ELSE LET j == Least(at)
                 e == MatchCodeAt(text, j)
             IN  SubSeq(text, i, j - 1)
                   \o CodePlaceholder(H[SubSeq(text, j, e)])
                   \o SubCode(text, e + 1, H)

\* table_pattern.sub(lambda m: f"TABLE_{hash(m.group(0))}", content)
RECURSIVE SubTable(_, _, _)
SubTable(text, i, H) ==
    LET at == {j \in i .. Len(text) : MatchTableAt(text, j) > 0}
    IN  IF at = {} THEN SubSeq(text, i, Len(text))
        ELSE LET j == Least(at)
                 e == MatchTableAt(text, j)
             IN  SubSeq(text, i, j - 1)
                   \o TablePlaceholder(H[SubSeq(text, j, e)])
                   \o SubTable(text, e + 1, H)

\* the (language, content) groups of the matches of code_block_pattern, as
\* _extract_metadata collects them with finditer
RECURSIVE ExtractCodeBlocks(_, _)
ExtractCodeBlocks(text, i) ==
    LET at == {j \in i .. Len(text) : MatchCodeAt(text, j) > 0}
    IN  IF at = {} THEN << >>
        ELSE LET j == Least(at)
                 e == MatchCodeAt(text, j)
                 w == WordRunEnd(text, j + 3)
             IN  <<[language |-> SubSeq(text, j + 3, w - 1),
                    content |-> SubSeq(text, w + 1, e - 4)]>>
                   \o ExtractCodeBlocks(text, e + 1)

\* values hash() takes on the blocks of a document; CPython never returns -1
HashValues == {h \in (0 - MaxHash) .. MaxHash : h # -1}

\* _preserve_special_blocks(content), with the hash values H1 of the code
\* blocks and H2 of the tables
PreserveSpecialBlocks(content, code, tables, H1, H2) ==
    LET c1 == IF code THEN SubCode(content, 1, H1) ELSE content
    IN  IF tables THEN SubTable(c1, 1, H2) ELSE c1

\* no chunk_markdown_file has been called
LlmIdle ==
    /\ lf_pc = "idle"
    /\ lf_chunks = << >>
    /\ lf_requests = 0
    /\ l2_pc = "idle"
    /\ file_content = << >>
    /\ remaining_content = << >>
    /\ l2_chunks = << >>

\* the locals of a call that has not started
NoHash == [b \in {} |-> 0]

IdleFrame ==
    [pc |-> "idle", op |-> "none", document |-> << >>, py_hash |-> NoHash,
     heading_chunks |-> << >>, next_chunk |-> 0,
     parent_ids |-> [l \in {} |-> << >>], md_chunks |-> << >>,
     total_tokens |-> 0, start_idx |-> 0, chunks |-> << >>]

Frames == 1 .. 2

IdleFrames == [f \in Frames |-> IdleFrame]

----------------------------------------------------------------------------
(* TokenChunker *)

\* the constructor stores whatever it is given
Sizes == -1 .. MaxSize

\* end_idx = min(start_idx + self.target_chunk_size, total_tokens)
EndIdxNoClamp(start, size, total) == start + size

EndIdxWholeRest(start, size, total) == total

EndIdx(start, size, total) == Min(start + size, total)

\* start_idx = end_idx - self.overlap if end_idx < total_tokens else end_idx
NextStartAlwaysBack(end, ovl, total) == end - ovl

NextStartNoOverlap(end, ovl, total) == end

NextStart(end, ovl, total) == IF end < total THEN end - ovl ELSE end

\* while start_idx < total_tokens
LoopCondInclusive(start, total) == start <= total

LoopCond(start, total) == start < total

\* the slice tokens[start_idx:end_idx], kept as its index range
TokenWindow(start, end) == [start_index |-> start, end_index |-> end]

TokenInit ==
    /\ tc_pc = "idle"
    /\ target_chunk_size \in Sizes
    /\ overlap \in Sizes
    /\ total_tokens = 0
    /\ start_idx = 0
    /\ chunks = << >>
    /\ preserve_code_blocks = TRUE
    /\ preserve_tables = TRUE
    /\ md_pc = "idle"
    /\ document = << >>
    /\ masked_content = << >>
    /\ py_hash = NoHash
    /\ heading_chunks = << >>
    /\ next_chunk = 0
    /\ parent_ids = [l \in {} |-> << >>]
    /\ md_chunks = << >>
    /\ frames = IdleFrames
    /\ LlmIdle

\* entry of split_into_chunks: encode the text, reset the cursor
SplitCall ==
    /\ tc_pc \in {"idle", "done"}
    /\ \E n \in 0 .. MaxTokens : total_tokens' = n
    /\ chunks' = << >>
    /\ start_idx' = 0
    /\ tc_pc' = "loop"
    /\ UNCHANGED <<target_chunk_size, overlap, mdVars,
                   frames, llmVars>>

\* one iteration of the while loop
SplitIterate ==
    /\ tc_pc = "loop"
    /\ LoopCond(start_idx, total_tokens)
    /\ Len(chunks) < MaxChunks
    /\ LET end_idx == EndIdx(start_idx, target_chunk_size, total_tokens)
       IN  /\ chunks' = Append(chunks, TokenWindow(start_idx, end_idx))
           /\ start_idx' = NextStart(end_idx, overlap, total_tokens)
    /\ UNCHANGED <<tc_pc, target_chunk_size, overlap, total_tokens, mdVars,
                   frames, llmVars>>

\* loop exit and return chunks
SplitReturn ==
    /\ tc_pc = "loop"
    /\ ~LoopCond(start_idx, total_tokens)
    /\ tc_pc' = "done"
    /\ UNCHANGED <<target_chunk_size, overlap, total_tokens, start_idx, chunks, mdVars,
                   frames, llmVars>>

TokenNext == SplitCall \/ SplitIterate \/ SplitReturn

TokenSpec == TokenInit /\ [][TokenNext]_vars

\* a call that is running takes its next step: the loop body while the loop
\* condition holds, the return when it does not
TokenFairSpec ==
    TokenSpec /\ WF_vars(SplitIterate) /\ WF_vars(SplitReturn)

----------------------------------------------------------------------------
(* MarkdownChunker *)

\* heading_pattern: at most this many '#'
MaxHeadingLevel == 6

\* _generate_chunk_id hashes content[:50]
IdPrefixLen == 50

\* parent_id = None
None == << >>

\* heading_pattern.match(line): ^(#{1,6})\s+(.+)$ ; the number of '#' matched,
\* 0 when the line does not match
HeadingLevelAnyDepth(line) ==
    LET k == CountHashes(line, 1)
    IN  IF /\ 1 <= k
           /\ Len(line) >= k + 2
           /\ IsSpace(line[k + 1])
        THEN k ELSE 0

HeadingLevel(line) ==
    LET k == CountHashes(line, 1)
    IN  IF /\ 1 <= k /\ k <= MaxHeadingLevel
           /\ Len(line) >= k + 2
           /\ IsSpace(line[k + 1])
        THEN k ELSE 0

\* hashlib.sha256(base.encode()).hexdigest()[:12], taken to be free of
\* collisions: the digest stands for the text it was computed from
Sha256Hex12(base) == <<"sha256">> \o base

\* _generate_chunk_id(content, parent_id)
GenerateChunkId(content, parent_id) ==
    Sha256Hex12(Prefix(content, IdPrefixLen) \o parent_id)

\* the accumulators of _split_at_heading before the first line
SplitStart ==
    [chunks |-> << >>, current_chunk |-> << >>, current_level |-> 0,
     current_title |-> <<"I","n","t","r","o","d","u","c","t","i","o","n">>]

HeadingChunk(st) ==
    [content |-> JoinLines(st.current_chunk), level |-> st.current_level,
     title |-> st.current_title]

\* body of the for loop of _split_at_heading for one line
SplitStep(st, line) ==
    LET heading_level == HeadingLevel(line)
    IN  IF heading_level > 0
        THEN [chunks |-> IF st.current_chunk # << >>
                         THEN Append(st.chunks, HeadingChunk(st))
                         ELSE st.chunks,
              current_chunk |-> <<line>>,
              current_level |-> heading_level,
              current_title |-> Strip(LStripHashes(line))]
        ELSE [st EXCEPT !.current_chunk = Append(st.current_chunk, line)]

RECURSIVE SplitFold(_, _, _)
SplitFold(lines, i, st) ==
    IF i > Len(lines) THEN st
    ELSE SplitFold(lines, i + 1, SplitStep(st, lines[i]))

\* the closing "if current_chunk:" of _split_at_heading
SplitFinishDropLast(st) == st.chunks

SplitFinish(st) ==
    IF st.current_chunk # << >>
    THEN Append(st.chunks, HeadingChunk(st))
    ELSE st.chunks

\* _split_at_heading(content)
SplitAtHeading(content) ==
    SplitFinish(SplitFold(SplitLines(content), 1, SplitStart))

\* MarkdownChunk(content=..., title=..., level=..., chunk_id=..., parent_id=...,
\* code_blocks=metadata.get('code_blocks', []))
MarkdownChunk(hc, chunk_id, parent_id) ==
    [content |-> hc.content, title |-> hc.title, level |-> hc.level,
     chunk_id |-> chunk_id, parent_id |-> parent_id,
     code_blocks |-> ExtractCodeBlocks(hc.content, 1)]

\* the levels range(level - 1, 0, -1) that have an entry in parent_ids
ParentLevelsInclusive(ids, level) == {l \in 1 .. level : l \in DOMAIN ids}

ParentLevels(ids, level) == {l \in 1 .. level - 1 : l \in DOMAIN ids}

Max(S) == CHOOSE x \in S : \A y \in S : y <= x

\* "Find parent ID": the entry of the greatest recorded level below level
FindParent(ids, level) ==
    IF level > 1 /\ ParentLevels(ids, level) # {}
    THEN ids[Max(ParentLevels(ids, level))]
    ELSE None

\* parent_ids[level] = chunk_id
RecordLevel(ids, level, chunk_id) ==
    [l \in DOMAIN ids \cup {level} |-> IF l = level THEN chunk_id ELSE ids[l]]

EmptyDict == [l \in {} |-> None]

\* lines a document is made of
Heading(n, title) == Repeat("#", n) \o <<" ">> \o title

\* documents of headings and text; the last line is as long as the prefix
\* that _generate_chunk_id hashes
HeadingLines ==
    { << >>,
      <<"a">>,
      Heading(1, <<"a">>),
      Heading(2, <<"a">>),
      Heading(3, <<"a">>),
      Heading(1, Repeat("b", IdPrefixLen - 2)) }

\* documents with fences and table rows
BlockLines ==
    { << >>,
      <<"a">>,
      Heading(1, <<"a">>),
      <<BT, BT, BT>>,
      <<"|", "a", "|">>,
      <<"|", "-", "|">> }

\* a fenced code block around one line of text
Fenced(body) == <<BT, BT, BT>> \o NL \o body \o NL \o <<BT, BT, BT>>

\* documents of whole parts: two different code blocks, a heading, a line
\* of seven '#', and a line that spells a placeholder
PartLines ==
    { Heading(1, <<"a">>),
      Heading(MaxHeadingLevel + 1, <<"a">>),
      Fenced(<<"a">>),
      Fenced(<<"b">>),
      CodePlaceholder(1) }

LineLists ==
    UNION {[1 .. k -> HeadingLines] \cup [1 .. k -> BlockLines] :
              k \in 1 .. MaxLines}
      \cup UNION {[1 .. k -> PartLines] : k \in 1 .. MaxParts}

MdInit ==
    /\ preserve_code_blocks \in BOOLEAN
    /\ preserve_tables \in BOOLEAN
    /\ md_pc = "idle"
    /\ document = << >>
    /\ masked_content = << >>
    /\ py_hash = NoHash
    /\ heading_chunks = << >>
    /\ next_chunk = 0
    /\ parent_ids = EmptyDict
    /\ md_chunks = << >>
    /\ tc_pc = "idle"
    /\ target_chunk_size = 1000
    /\ overlap = 250
    /\ total_tokens = 0
    /\ start_idx = 0
    /\ chunks = << >>
    /\ frames = IdleFrames
    /\ LlmIdle

\* entry of chunk_markdown up to the for loop; a behaviour follows one call
ChunkCall ==
    /\ md_pc = "idle"
    /\ \E lines \in LineLists :
          LET content == JoinLines(lines)
              codeBlocks == IF preserve_code_blocks
                            THEN CodeMatches(content, 1) ELSE {}
          IN  \E H1 \in [codeBlocks -> HashValues] :
                LET c1 == IF preserve_code_blocks
                          THEN SubCode(content, 1, H1) ELSE content
                    tables == IF preserve_tables
                              THEN TableMatches(c1, 1) ELSE {}
                IN  \E H2 \in [tables -> HashValues] :
                      LET masked == PreserveSpecialBlocks(content,
                                        preserve_code_blocks, preserve_tables,
                                        H1, H2)
                      IN  /\ document' = content
                          /\ masked_content' = masked
                          /\ py_hash' = [b \in codeBlocks \cup tables |->
                                IF b \in codeBlocks THEN H1[b] ELSE H2[b]]
                          /\ heading_chunks' = SplitAtHeading(masked)
    /\ next_chunk' = 1
    /\ parent_ids' = EmptyDict
    /\ md_chunks' = << >>
    /\ md_pc' = "loop"
    /\ UNCHANGED <<preserve_code_blocks, preserve_tables, tcVars, frames, llmVars>>

\* one iteration of "for chunk_content, level, title in heading_chunks"; the
\* record keeps content, title, level, chunk_id, parent_id and code_blocks of
\* the MarkdownChunk
ChunkIterate ==
    /\ md_pc = "loop"
    /\ next_chunk <= Len(heading_chunks)
    /\ LET hc == heading_chunks[next_chunk]
           chunk_id == GenerateChunkId(hc.content, None)
           parent_id == FindParent(parent_ids, hc.level)
       IN  /\ parent_ids' = RecordLevel(parent_ids, hc.level, chunk_id)
           /\ md_chunks' = Append(md_chunks,
                  MarkdownChunk(hc, chunk_id, parent_id))
    /\ next_chunk' = next_chunk + 1
    /\ UNCHANGED <<preserve_code_blocks, preserve_tables, md_pc, document,
                   masked_content, py_hash, heading_chunks, tcVars, frames, llmVars>>

\* return chunks
ChunkReturn ==
    /\ md_pc = "loop"
    /\ next_chunk > Len(heading_chunks)
    /\ md_pc' = "done"
    /\ UNCHANGED <<preserve_code_blocks, preserve_tables, document,
                   masked_content, py_hash, heading_chunks, next_chunk,
                   parent_ids, md_chunks, tcVars, frames, llmVars>>

MdNext == ChunkCall \/ ChunkIterate \/ ChunkReturn

MdSpec == MdInit /\ [][MdNext]_vars

----------------------------------------------------------------------------
(* Two calls in flight on one chunker *)

\* chunk_markdown(content) run from entry to return with nothing else in
\* flight, hash being H
RECURSIVE ChunkFold(_, _, _, _)
ChunkFold(hcs, i, ids, out) ==
    IF i > Len(hcs) THEN out
    ELSE LET hc == hcs[i]
             chunk_id == GenerateChunkId(hc.content, None)
             parent_id == FindParent(ids, hc.level)
         IN  ChunkFold(hcs, i + 1, RecordLevel(ids, hc.level, chunk_id),
                       Append(out, MarkdownChunk(hc, chunk_id, parent_id)))

ChunkMarkdown(content, code, tables, H) ==
    ChunkFold(SplitAtHeading(PreserveSpecialBlocks(content, code, tables, H, H)),
              1, EmptyDict, << >>)

\* split_into_chunks run from entry to return with nothing else in flight
RECURSIVE WindowFold(_, _, _, _, _)
WindowFold(start, total, size, ovl, out) ==
    IF ~LoopCond(start, total) \/ Len(out) >= MaxChunks THEN out
    ELSE LET end_idx == EndIdx(start, size, total)
         IN  WindowFold(NextStart(end_idx, ovl, total), total, size, ovl,
                        Append(out, TokenWindow(start, end_idx)))

SplitIntoChunks(total, size, ovl) == WindowFold(0, total, size, ovl, << >>)

\* documents of the calls in flight
PairParts == {Heading(1, <<"a">>), Heading(2, <<"a">>), Fenced(<<"a">>)}

PairLineLists == UNION {[1 .. k -> PairParts] : k \in 1 .. MaxParts}

\* parent_ids is a local of the call: "parent_ids = {}"
FrameParentIdsShared(f) == frames[1].parent_ids

FrameParentIds(f) == frames[f].parent_ids

\* values of hash() in the two runs
PairHashValues == {h \in HashValues : h \in {0, 1}}

\* one chunker of each class, flags at their defaults, windows of two tokens
\* that share one
PairInit ==
    /\ preserve_code_blocks = TRUE
    /\ preserve_tables = TRUE
    /\ target_chunk_size = 2
    /\ overlap = 1
    /\ frames = IdleFrames
    /\ LlmIdle
    /\ md_pc = "idle"
    /\ document = << >>
    /\ masked_content = << >>
    /\ py_hash = NoHash
    /\ heading_chunks = << >>
    /\ next_chunk = 0
    /\ parent_ids = EmptyDict
    /\ md_chunks = << >>
    /\ tc_pc = "idle"
    /\ total_tokens = 0
    /\ start_idx = 0
    /\ chunks = << >>

\* entry of chunk_markdown in frame f, up to the for loop
FrameChunkCall(f) ==
    /\ frames[f].pc = "idle"
    /\ \E lines \in PairLineLists :
          LET content == JoinLines(lines)
              codeBlocks == IF preserve_code_blocks
                            THEN CodeMatches(content, 1) ELSE {}
          IN  \E H1 \in [codeBlocks -> PairHashValues] :
                LET c1 == IF preserve_code_blocks
                          THEN SubCode(content, 1, H1) ELSE content
                    tables == IF preserve_tables
                              THEN TableMatches(c1, 1) ELSE {}
                IN  \E H2 \in [tables -> PairHashValues] :
                      frames' = [frames EXCEPT ![f] =
                        [@ EXCEPT
                           !.pc = "md_loop",
                           !.op = "chunk_markdown",
                           !.document = content,
                           !.py_hash = [b \in codeBlocks \cup tables |->
                                IF b \in codeBlocks THEN H1[b] ELSE H2[b]],
                           !.heading_chunks = SplitAtHeading(
                                PreserveSpecialBlocks(content,
                                    preserve_code_blocks, preserve_tables,
                                    H1, H2)),
                           !.next_chunk = 1,
                           !.parent_ids = EmptyDict,
                           !.md_chunks = << >>]]
    /\ UNCHANGED <<tcVars, mdVars, llmVars>>

\* one iteration of the for loop of chunk_markdown in frame f
FrameChunkIterate(f) ==
    /\ frames[f].pc = "md_loop"
    /\ frames[f].next_chunk <= Len(frames[f].heading_chunks)
    /\ LET hc == frames[f].heading_chunks[frames[f].next_chunk]
           chunk_id == GenerateChunkId(hc.content, None)
           parent_id == FindParent(FrameParentIds(f), hc.level)
       IN  frames' = [frames EXCEPT ![f] =
             [@ EXCEPT
                !.parent_ids = RecordLevel(FrameParentIds(f), hc.level,
                                           chunk_id),
                !.md_chunks = Append(@, MarkdownChunk(hc, chunk_id, parent_id)),
                !.next_chunk = @ + 1]]
    /\ UNCHANGED <<tcVars, mdVars, llmVars>>

\* entry of split_into_chunks in frame f
FrameSplitCall(f) ==
    /\ frames[f].pc = "idle"
    /\ \E n \in 0 .. MaxSize :
          frames' = [frames EXCEPT ![f] =
            [@ EXCEPT !.pc = "split_loop", !.op = "split_into_chunks",
                      !.total_tokens = n, !.start_idx = 0, !.chunks = << >>]]
    /\ UNCHANGED <<tcVars, mdVars, llmVars>>

\* one iteration of the while loop of split_into_chunks in frame f
FrameSplitIterate(f) ==
    /\ frames[f].pc = "split_loop"
    /\ LoopCond(frames[f].start_idx, frames[f].total_tokens)
    /\ Len(frames[f].chunks) < MaxChunks
    /\ LET end_idx == EndIdx(frames[f].start_idx, target_chunk_size,
                             frames[f].total_tokens)
       IN  frames' = [frames EXCEPT ![f] =
             [@ EXCEPT
                !.chunks = Append(@, TokenWindow(frames[f].start_idx, end_idx)),
                !.start_idx = NextStart(end_idx, overlap,
                                        frames[f].total_tokens)]]
    /\ UNCHANGED <<tcVars, mdVars, llmVars>>

\* "return chunks" of either operation in frame f
FrameReturn(f) ==
    /\ \/ /\ frames[f].pc = "md_loop"
          /\ frames[f].next_chunk > Len(frames[f].heading_chunks)
       \/ /\ frames[f].pc = "split_loop"
          /\ ~LoopCond(frames[f].start_idx, frames[f].total_tokens)
    /\ frames' = [frames EXCEPT ![f].pc = "done"]
    /\ UNCHANGED <<tcVars, mdVars, llmVars>>

PairNext ==
    \E f \in Frames :
        \/ FrameChunkCall(f)
        \/ FrameChunkIterate(f)
        \/ FrameSplitCall(f)
        \/ FrameSplitIterate(f)
        \/ FrameReturn(f)

PairSpec == PairInit /\ [][PairNext]_vars

----------------------------------------------------------------------------
(* chunk_markdown_file of chunk_large_file.py *)

\* the chunkers of the other modules, not in use
ChunkersIdle ==
    /\ tc_pc = "idle"
    /\ target_chunk_size = 1000
    /\ overlap = 250
    /\ total_tokens = 0
    /\ start_idx = 0
    /\ chunks = << >>
    /\ preserve_code_blocks = TRUE
    /\ preserve_tables = TRUE
    /\ md_pc = "idle"
    /\ document = << >>
    /\ masked_content = << >>
    /\ py_hash = NoHash
    /\ heading_chunks = << >>
    /\ next_chunk = 0
    /\ parent_ids = EmptyDict
    /\ md_chunks = << >>
    /\ frames = IdleFrames

\* whitespace that str.strip() removes, of the characters that occur
IsWhitespace(c) == c \in {" ", "\t", "\n"}

\* t.strip() of a text of several lines
StripText(t) ==
    LET solid == {i \in 1 .. Len(t) : ~IsWhitespace(t[i])}
    IN  IF solid = {} THEN << >> ELSE SubSeq(t, Least(solid), Max(solid))

\* "if len(chunks) >= 100"
ChunkLimit == 100

\* a text that differs from the first k - 1 chunks
FreshText(k) == [i \in 1 .. k |-> "a"]

Padded(t) == <<" ">> \o t \o <<NL>>

\* response.choices[0].message.content of the next completion: the service
\* answers with nothing, with a chunk it gave before or with a new text, with
\* or without whitespace around it
Completions(chs) ==
    LET texts == {<< >>, FreshText(Len(chs) + 1)}
                    \cup {chs[i] : i \in 1 .. Len(chs)}
    IN  texts \cup {Padded(t) : t \in texts}

\* "if not next_chunk or next_chunk in chunks"
EndOfContentEmptyOnly(next, chs) == next = << >>

EndOfContent(next, chs) ==
    next = << >> \/ \E i \in 1 .. Len(chs) : chs[i] = next

LfInit ==
    /\ ChunkersIdle
    /\ LlmIdle

\* entry of chunk_markdown_file up to "while True": the initial chunk is
\* requested and appended
LfCall ==
    /\ lf_pc = "idle"
    /\ \E raw \in Completions(<< >>) :
          lf_chunks' = <<StripText(raw)>>
    /\ lf_requests' = 1
    /\ lf_pc' = "loop"
    /\ UNCHANGED <<tcVars, mdVars, frames, l2_pc, file_content,
                   remaining_content, l2_chunks>>

\* one iteration of "while True"; a break is followed by "return chunks"
LfIterate ==
    /\ lf_pc = "loop"
    /\ \E raw \in Completions(lf_chunks) :
          LET next == StripText(raw)
          IN  IF EndOfContent(next, lf_chunks)
              THEN /\ lf_chunks' = lf_chunks
                   /\ lf_pc' = "done"
              ELSE /\ lf_chunks' = Append(lf_chunks, next)
                   /\ lf_pc' = IF Len(lf_chunks) + 1 >= ChunkLimit
                               THEN "done" ELSE "loop"
    /\ lf_requests' = lf_requests + 1
    /\ UNCHANGED <<tcVars, mdVars, frames, l2_pc, file_content,
                   remaining_content, l2_chunks>>

LfNext == LfCall \/ LfIterate

\* a call that is running goes on: every completion request is answered
LfSpec == LfInit /\ [][LfNext]_vars /\ WF_vars(LfIterate)

----------------------------------------------------------------------------
(* chunk_markdown_file of chunk_large2.py *)

\* the texts a file can hold
FileContents ==
    UNION {[1 .. k -> {"a", " ", NL}] : k \in 0 .. MaxContent}

\* response.choices[0].message.content: nothing, whitespace, or a text of
\* any length up to one more than the file's, with or without whitespace
\* around it; the service need not answer with a prefix of the remainder
Responses ==
    LET texts == {FreshText(k) : k \in 0 .. MaxContent + 1}
    IN  texts \cup {Padded(t) : t \in texts}

\* chunks appended before the model stops following a call whose responses
\* do not shorten the remainder
MaxIterations == MaxContent + 1

\* "while remaining_content.strip()"
Remains(remaining) == StripText(remaining) # << >>

\* remaining_content[len(next_chunk):].strip()
RemainingAfterNoCut(remaining, next) == StripText(remaining)

RemainingAfter(remaining, next) == StripText(Drop(remaining, Len(next)))

L2Init ==
    /\ ChunkersIdle
    /\ LlmIdle

\* entry of chunk_markdown_file: read the file, chunks = [],
\* remaining_content = content
L2Call ==
    /\ l2_pc = "idle"
    /\ \E c \in FileContents :
          /\ file_content' = c
          /\ remaining_content' = c
    /\ l2_chunks' = << >>
    /\ l2_pc' = "loop"
    /\ UNCHANGED <<tcVars, mdVars, frames, lf_pc, lf_chunks, lf_requests>>

\* one iteration of the while loop
L2Iterate ==
    /\ l2_pc = "loop"
    /\ Remains(remaining_content)
    /\ Len(l2_chunks) < MaxIterations
    /\ \E raw \in Responses :
          LET next == StripText(raw)
          IN  /\ l2_chunks' = Append(l2_chunks, next)
              /\ remaining_content' = RemainingAfter(remaining_content, next)
    /\ UNCHANGED <<tcVars, mdVars, frames, lf_pc, lf_chunks, lf_requests,
                   l2_pc, file_content>>

\* loop exit and "return chunks"
L2Return ==
    /\ l2_pc = "loop"
    /\ ~Remains(remaining_content)
    /\ l2_pc' = "done"
    /\ UNCHANGED <<tcVars, mdVars, frames, lf_pc, lf_chunks, lf_requests,
                   file_content, remaining_content, l2_chunks>>

L2Next == L2Call \/ L2Iterate \/ L2Return

\* a call that is running takes its next step
L2Spec ==
    L2Init /\ [][L2Next]_vars /\ WF_vars(L2Iterate) /\ WF_vars(L2Return)

----------------------------------------------------------------------------
(* Properties of the token windows *)

\* the precondition of the window chunker, 0 < overlap < target_size
ValidConfig == 0 < overlap /\ overlap < target_chunk_size

\* sizes that are not negative, with overlap < target_size
OverlapBelowTarget == 0 <= overlap /\ overlap < target_chunk_size

Returned == tc_pc = "done"

CeilDiv(a, b) == (a + b - 1) \div b

\* C1 (coverage): when split_into_chunks returns under overlap < target_size,
\* every token index 0..N-1 lies in some window and no window reaches
\* outside [0, N).
C1_Coverage ==
    (Returned /\ OverlapBelowTarget) =>
        /\ \A i \in 0 .. total_tokens - 1 :
              \E w \in 1 .. Len(chunks) :
                  chunks[w].start_index <= i /\ i < chunks[w].end_index
        /\ \A w \in 1 .. Len(chunks) :
              0 <= chunks[w].start_index /\ chunks[w].end_index <= total_tokens

C1_Witness ==
    /\ Returned /\ ValidConfig
    /\ Len(chunks) >= 3
    /\ chunks[Len(chunks)].end_index = total_tokens

\* C2 (bounded size): at every moment, under every configuration, each window
\* appended so far holds at most target_chunk_size tokens.
C2_BoundedSize ==
    \A w \in 1 .. Len(chunks) :
        chunks[w].end_index - chunks[w].start_index <= target_chunk_size

C2_Witness ==
    /\ Returned /\ ValidConfig
    /\ Len(chunks) >= 2
    /\ chunks[1].end_index - chunks[1].start_index = target_chunk_size
    /\ chunks[Len(chunks)].end_index - chunks[Len(chunks)].start_index
          < target_chunk_size

\* C3 (overlap exactness): consecutive windows Wi, Wi+1 satisfy
\* Wi.end_index - Wi+1.start_index = overlap, the final pair being excused
\* when the last window is shorter than target_chunk_size.
C3_OverlapExact ==
    Returned =>
        \A i \in 1 .. Len(chunks) - 1 :
            \/ /\ i + 1 = Len(chunks)
               /\ chunks[i + 1].end_index - chunks[i + 1].start_index
                     < target_chunk_size
            \/ chunks[i].end_index - chunks[i + 1].start_index = overlap

C3_Witness ==
    /\ Returned /\ ValidConfig
    /\ Len(chunks) >= 3
    /\ chunks[1].end_index - chunks[2].start_index = overlap
    /\ chunks[Len(chunks)].end_index - chunks[Len(chunks)].start_index
          = target_chunk_size

\* C4 as stated (window count): ceil((N - O) / (T - O)) windows when N > O,
\* and exactly 1 window when N <= O.
C4_WindowCountAsStated ==
    (Returned /\ ValidConfig) =>
        Len(chunks) =
            IF total_tokens > overlap
            THEN CeilDiv(total_tokens - overlap, target_chunk_size - overlap)
            ELSE 1

\* C4 (window count, amended): ceil((N - O) / (T - O)) windows when N > O,
\* exactly 1 window when 0 < N <= O, and no window when N = 0.
C4_WindowCount ==
    (Returned /\ OverlapBelowTarget) =>
        Len(chunks) =
            IF total_tokens > overlap
            THEN CeilDiv(total_tokens - overlap, target_chunk_size - overlap)
            ELSE IF total_tokens > 0 THEN 1 ELSE 0

C4_Witness ==
    /\ Returned /\ ValidConfig
    /\ total_tokens > target_chunk_size
    /\ Len(chunks) = CeilDiv(total_tokens - overlap, target_chunk_size - overlap)
    /\ Len(chunks) >= 3

\* C5 (invalid configuration is rejected): under a configuration that violates
\* 0 < overlap < target_size the call fails before any window is produced, so
\* no window is ever appended.
C5_InvalidConfigRejected ==
    ~ValidConfig => chunks = << >>

\* C6 (empty token stream): with N = 0 the loop body is never entered, no
\* window is appended, and the call returns the empty sequence.
C6_EmptyStream ==
    total_tokens = 0 =>
        /\ chunks = << >>
        /\ tc_pc = "loop" => ~ENABLED SplitIterate

C6_Witness ==
    Returned /\ total_tokens = 0 /\ chunks = << >> /\ ValidConfig

----------------------------------------------------------------------------
(* Properties of the structural chunks *)

MdReturned == md_pc = "done"

\* the chunks before position i whose level lies in 1 .. level - 1
ShallowerBefore(i) ==
    {j \in 1 .. i - 1 :
        1 <= md_chunks[j].level /\ md_chunks[j].level < md_chunks[i].level}

\* C7 (empty document): chunk_markdown applied to the empty string returns an
\* empty sequence of chunks.
C7_EmptyDocument ==
    (MdReturned /\ document = << >>) => md_chunks = << >>

\* C8 (parent resolution with invalidation): every returned chunk of level
\* L >= 2 has as parent_id the id of the most recent preceding chunk whose
\* level is in 1 .. L-1, and no parent_id when there is none.
C8_ParentResolution ==
    MdReturned =>
        \A i \in 1 .. Len(md_chunks) :
            md_chunks[i].level >= 2 =>
                md_chunks[i].parent_id =
                    IF ShallowerBefore(i) = {} THEN None
                    ELSE md_chunks[Max(ShallowerBefore(i))].chunk_id

\* C9 (parent is prior and shallower): a parent_id, when present, is the
\* chunk_id of a chunk appended earlier in the same pass whose level is >= 1
\* and below the chunk's own level; chunks of level 0 or 1 have no parent_id.
C9_ParentPrior ==
    \A i \in 1 .. Len(md_chunks) :
        /\ md_chunks[i].parent_id # None =>
              \E j \in ShallowerBefore(i) :
                  md_chunks[j].chunk_id = md_chunks[i].parent_id
        /\ md_chunks[i].level <= 1 => md_chunks[i].parent_id = None

C9_Witness ==
    /\ MdReturned
    /\ \E i, k \in 1 .. Len(md_chunks) :
          /\ i < k
          /\ md_chunks[i].level = 2 /\ md_chunks[i].parent_id # None
          /\ md_chunks[k].level = 3 /\ md_chunks[k].parent_id = md_chunks[i].chunk_id
    /\ \E i \in 1 .. Len(md_chunks) :
          md_chunks[i].level = 1 /\ md_chunks[i].parent_id = None

\* C10 (id depends on content and parent): two chunks of one pass with
\* identical content under different parents receive different ids.
C10_IdFromContentAndParent ==
    MdReturned =>
        \A i, j \in 1 .. Len(md_chunks) :
            (/\ md_chunks[i].content = md_chunks[j].content
             /\ md_chunks[i].parent_id # md_chunks[j].parent_id)
                => md_chunks[i].chunk_id # md_chunks[j].chunk_id

----------------------------------------------------------------------------
(* Properties of calls in flight together *)

FrameDone(f, op) == frames[f].pc = "done" /\ frames[f].op = op

\* C11: chunking the same text twice with the same configuration, in two
\* runs, yields the same number of chunks and the same chunk ids
C11_Determinism ==
    (/\ FrameDone(1, "chunk_markdown")
     /\ FrameDone(2, "chunk_markdown")
     /\ frames[1].document = frames[2].document)
    => /\ Len(frames[1].md_chunks) = Len(frames[2].md_chunks)
       /\ \A i \in 1 .. Len(frames[1].md_chunks) :
             frames[1].md_chunks[i].chunk_id = frames[2].md_chunks[i].chunk_id

\* what frame f returns when it runs alone
RunAlone(f) ==
    IF frames[f].op = "chunk_markdown"
    THEN ChunkMarkdown(frames[f].document, preserve_code_blocks,
                       preserve_tables, frames[f].py_hash)
    ELSE SplitIntoChunks(frames[f].total_tokens, target_chunk_size, overlap)

FrameResult(f) ==
    IF frames[f].op = "chunk_markdown" THEN frames[f].md_chunks
    ELSE frames[f].chunks

RunsAlone ==
    \A f \in Frames : frames[f].pc = "done" => FrameResult(f) = RunAlone(f)

ConfigKept ==
    /\ preserve_code_blocks' = preserve_code_blocks
    /\ preserve_tables' = preserve_tables
    /\ target_chunk_size' = target_chunk_size
    /\ overlap' = overlap

\* C16: each of two interleaved calls returns the chunk sequence it returns
\* when run alone, and no call changes the configuration of the chunker
C16_NoSharedState == []RunsAlone /\ [][ConfigKept]_vars

\* the second call has returned a chunk with a parent while the first call,
\* on another document, is inside its loop and has recorded a level-1 id
C16_Witness ==
    /\ frames[1].pc = "md_loop"
    /\ frames[1].next_chunk = 2
    /\ 1 \in DOMAIN frames[1].parent_ids
    /\ FrameDone(2, "chunk_markdown")
    /\ frames[2].document # frames[1].document
    /\ Len(frames[2].md_chunks) = 2
    /\ frames[2].md_chunks[2].parent_id # None

----------------------------------------------------------------------------
(* Properties of the returned contents *)

RECURSIVE ConcatAll(_)
ConcatAll(texts) ==
    IF texts = << >> THEN << >> ELSE Head(texts) \o ConcatAll(Tail(texts))

\* the content fields of the returned chunks, in order
Contents == [i \in 1 .. Len(md_chunks) |-> md_chunks[i].content]

\* C12: the content fields of the returned chunks, put together in order,
\* reproduce the document character for character (one after the other, or
\* with the newline the split removed between consecutive chunks)
C12_RoundTrip ==
    MdReturned =>
        \/ ConcatAll(Contents) = document
        \/ JoinLines(Contents) = document

\* sub occurs in text
Contains(text, sub) ==
    \E i \in 1 .. Len(text) - Len(sub) + 1 :
        SubSeq(text, i, i + Len(sub) - 1) = sub

\* C13: with code blocks preserved, every fenced code block of the document,
\* from its opening to its closing fence, lies within the content of exactly
\* one returned chunk
C13_BlockInOneChunk ==
    (MdReturned /\ preserve_code_blocks) =>
        \A b \in CodeMatches(document, 1) :
            Cardinality({i \in 1 .. Len(md_chunks) :
                            Contains(md_chunks[i].content, b)}) = 1

----------------------------------------------------------------------------
(* Properties of the heading split *)

\* line is L '#' characters, L between 1 and 6, then whitespace, then at
\* least one more character
IsHeadingLine(line, L) ==
    /\ L \in 1 .. 6
    /\ Len(line) >= L + 2
    /\ \A j \in 1 .. L : line[j] = "#"
    /\ IsSpace(line[L + 1])

HeadingLine(line) == \E L \in 1 .. 6 : IsHeadingLine(line, L)

\* no line of text is a heading line
NoHeadingLine(text) ==
    LET ls == SplitLines(text)
    IN  \A i \in 1 .. Len(ls) : ~HeadingLine(ls[i])

\* C14: a text that is not empty and has no heading line yields exactly one
\* chunk, of level 0, titled with the sentinel, without parent, whose content
\* is all of the text
C14_NoHeadingDocument ==
    (MdReturned /\ document # << >> /\ NoHeadingLine(document)) =>
        /\ Len(md_chunks) = 1
        /\ md_chunks[1].level = 0
        /\ md_chunks[1].title = SplitStart.current_title
        /\ md_chunks[1].parent_id = None
        /\ md_chunks[1].content = document

----------------------------------------------------------------------------
(* Properties of the metadata *)

\* the code_blocks fields of the returned chunks, in order
CodeBlockLists == [i \in 1 .. Len(md_chunks) |-> md_chunks[i].code_blocks]

\* C15: with code blocks preserved, the code_blocks of the returned chunks
\* list, in document order, the (language, content) of every fenced code
\* block of the document
C15_CodeBlocksOfDocument ==
    (MdReturned /\ preserve_code_blocks) =>
        ConcatAll(CodeBlockLists) = ExtractCodeBlocks(document, 1)

----------------------------------------------------------------------------
(* Progress of the window loop *)

\* an iteration of the loop moves the cursor forward
CursorAdvances ==
    (tc_pc = "loop" /\ tc_pc' = "loop" /\ overlap < target_chunk_size)
        => start_idx' > start_idx

\* the windows returned start at strictly increasing indices and the last
\* one ends at the number of tokens
IncreasingToEnd ==
    (Returned /\ OverlapBelowTarget /\ chunks # << >>) =>
        /\ \A i \in 1 .. Len(chunks) - 1 :
              chunks[i].start_index < chunks[i + 1].start_index
        /\ chunks[Len(chunks)].end_index = total_tokens

----------------------------------------------------------------------------
(* Properties of the segments *)

\* the lines of the text the split was given that are heading lines
HeadingLinesOf(text) ==
    LET ls == SplitLines(text)
    IN  {k \in 1 .. Len(ls) : HeadingLine(ls[k])}

\* chunk c, the i-th returned, starts at a heading line of its level, or is
\* the level-0 chunk in front of the first heading, and has no heading line
\* after its first line
SegmentOfHeading(c, i) ==
    LET ls == SplitLines(c.content)
    IN  /\ c.level > 0 =>
              /\ IsHeadingLine(ls[1], c.level)
              /\ c.title = Strip(SubSeq(ls[1], c.level + 1, Len(ls[1])))
        /\ c.level = 0 => (i = 1 /\ ~HeadingLine(ls[1]))
        /\ \A j \in 2 .. Len(ls) : ~HeadingLine(ls[j])

\* C18: every heading line (1 to 6 '#', whitespace, title) of the text that
\* is split starts a chunk of its depth and title, no other line does, and
\* only the first chunk can have level 0
C18_HeadingSegmentation ==
    MdReturned =>
        /\ \A i \in 1 .. Len(md_chunks) : SegmentOfHeading(md_chunks[i], i)
        /\ Cardinality(HeadingLinesOf(masked_content))
             = Cardinality({i \in 1 .. Len(md_chunks) :
                               md_chunks[i].level > 0})

\* a returned chunk of a heading whose second line is a line of seven '#'
C18_Witness ==
    /\ MdReturned
    /\ \E i \in 1 .. Len(md_chunks) :
          /\ md_chunks[i].level > 0
          /\ Len(SplitLines(md_chunks[i].content)) >= 2
          /\ CountHashes(SplitLines(md_chunks[i].content)[2], 1) > 6

----------------------------------------------------------------------------
(* Properties of the placeholders *)

\* the placeholder written for the protected block b
PlaceholderOf(b) ==
    IF b[1] = BT THEN CodePlaceholder(py_hash[b])
    ELSE TablePlaceholder(py_hash[b])

\* C19: a call that returns chunks has given different protected blocks
\* different placeholders, none of which occurs in the text of the document
C19_PlaceholderUnique ==
    MdReturned =>
        /\ \A b1, b2 \in DOMAIN py_hash :
              b1 # b2 => PlaceholderOf(b1) # PlaceholderOf(b2)
        /\ \A b \in DOMAIN py_hash : ~Contains(document, PlaceholderOf(b))

\* _split_at_heading has returned and the for loop has not started
SplitDone == md_pc = "loop" /\ next_chunk = 1

\* the texts of the segments _split_at_heading returned, in order
SegmentContents ==
    [i \in 1 .. Len(heading_chunks) |-> heading_chunks[i].content]

\* C20: the segments of _split_at_heading, joined in order by single
\* newlines, are the text it was given, and there is one segment per heading
\* line plus one when the first line is not a heading
C20_LineConservation ==
    SplitDone =>
        /\ JoinLines(SegmentContents) = masked_content
        /\ Len(heading_chunks)
             = Cardinality(HeadingLinesOf(masked_content))
               + (IF HeadingLine(SplitLines(masked_content)[1]) THEN 0 ELSE 1)

\* a masked text split into a level-0 segment that holds a placeholder and a
\* heading segment
C20_Witness ==
    /\ SplitDone
    /\ masked_content # document
    /\ Len(heading_chunks) >= 2
    /\ heading_chunks[1].level = 0
    /\ heading_chunks[1].content # << >>

----------------------------------------------------------------------------
(* Properties of the chunking loops that ask a completion service *)

\* at most 100 requests so far; every chunk after the first is not empty and
\* no two chunks are equal; a call that returned has 1 to 100 chunks
LfBounded ==
    /\ lf_requests <= 100
    /\ \A i \in 2 .. Len(lf_chunks) : lf_chunks[i] # << >>
    /\ \A i, j \in 1 .. Len(lf_chunks) : i # j => lf_chunks[i] # lf_chunks[j]
    /\ lf_pc = "done" => (1 <= Len(lf_chunks) /\ Len(lf_chunks) <= 100)

\* a response that is not appended ends the loop
LfStopsAtFirst ==
    (lf_pc = "loop" /\ lf_chunks' = lf_chunks) => lf_pc' = "done"

\* C21: whatever the service answers, chunk_markdown_file of
\* chunk_large_file.py returns after at most 100 requests with 1 to 100
\* chunks, which are pairwise different and not empty after the first; the
\* loop stops at the first empty or repeated response
C21_BoundedLoop ==
    /\ []LfBounded
    /\ [][LfStopsAtFirst]_vars
    /\ (lf_pc = "loop") ~> (lf_pc = "done")

\* the call that is stopped by the limit: 100 requests, 100 chunks
C21_Witness ==
    /\ lf_pc = "done"
    /\ lf_requests = 100
    /\ Len(lf_chunks) = 100

\* every response so far was not empty
AllResponsesSolid == \A i \in 1 .. Len(l2_chunks) : l2_chunks[i] # << >>

\* an iteration starts from a remainder that is not blank, appends one chunk
\* and does not lengthen the remainder; it shortens it when the response is
\* not empty
L2Shrinks ==
    (l2_pc = "loop" /\ l2_pc' = "loop") =>
        /\ StripText(remaining_content) # << >>
        /\ Len(l2_chunks') = Len(l2_chunks) + 1
        /\ Len(remaining_content') <= Len(remaining_content)
        /\ l2_chunks'[Len(l2_chunks')] # << >>
              => Len(remaining_content') < Len(remaining_content)

\* the loop is left with the remainder blank, and nothing is appended
L2ExitsWhenBlank ==
    (l2_pc = "loop" /\ l2_pc' = "done") =>
        /\ StripText(remaining_content) = << >>
        /\ l2_chunks' = l2_chunks

\* C22: in chunk_markdown_file of chunk_large2.py the remainder never grows,
\* a response that is not empty shortens it, one chunk is appended per
\* iteration, the loop is left exactly when the remainder is blank, and while
\* no response is empty there are at most len(content) iterations, after
\* which the call returns
C22_ShrinkingRemainder ==
    /\ [][L2Shrinks]_vars
    /\ [][L2ExitsWhenBlank]_vars
    /\ [](AllResponsesSolid => Len(l2_chunks) <= Len(file_content))
    /\ (l2_pc = "loop") ~> (l2_pc = "done" \/ ~AllResponsesSolid)

\* a call that took as many iterations as the file has characters
C22_Witness ==
    /\ l2_pc = "done"
    /\ AllResponsesSolid
    /\ Len(l2_chunks) >= 2
    /\ Len(l2_chunks) = Len(file_content)

====
